---- MODULE Spec2Model ----
(***************************************************************************)
(* Verification model of the wallstreet option library:                    *)
(*   wallstreet/blackandscholes.py  riskfree, BlackandScholes              *)
(*   wallstreet/wallstreet.py       Option, Call, Put (rate cache,         *)
(*                                  expirations, set_strike, update,       *)
(*                                  accessors)                             *)
(*   wallstreet/constants.py        steps, tolerance, starting value       *)
(*                                                                         *)
(* Numbers are fixed-point integers.  The three values NaN, PInf and NInf   *)
(* stand for the IEEE values numpy produces                                *)
(* (numpy divides by zero and takes roots and logarithms of negative       *)
(* numbers without raising: it warns and yields inf or nan).               *)
(***************************************************************************)
EXTENDS Integers, Sequences, FiniteSets, TLC

VARIABLES
    heap,     \* the BlackandScholes instances, by identity (1, 2, ...)
    solved,   \* per instance: how many times implied_volatility has run
    report,   \* per instance: what fsolve reported for its solve
    call,     \* the last call made, with what it returned or raised
    objs,     \* the Call and Put objects, by identity (1, 2, ...)
    _rate,    \* per class: the attribute _rate of its own namespace
    fetched,  \* how many times riskfree has been called
    market    \* the option chain: the expirations listed and those with
              \* calls and with puts

vars == <<heap, solved, report, call, objs, _rate, fetched, market>>

\* ------------------------------------------------------------ arithmetic
\* Two fixed-point scales share one set of operators.  Volatilities, times,
\* rates, d1, d2, probabilities and every ratio are counted in units of
\* 1 / ONE; prices (S, K, premiums, the solver's residual, Jacobian and
\* step bound) in units of 1 / PRICE.  Mul(a, b) is a * b / ONE and
\* Div(a, b) is a * ONE / b, so that
\*     Mul(price, ratio) is a price,   Div(price, price) is a ratio,
\*     Mul(ratio, ratio) is a ratio,   Div(price, ratio) is a price.
\* Everything fits 32 bits; a magnitude of LIMIT units or more is inf.
ONE == 10000 * 10000
PRICE == 1000 * 1000
MYRIAD == 100 * 100
LIMIT == 21 * ONE
PInf == LIMIT + 0
NInf == 0 - LIMIT
NaN == LIMIT + 1

\* a value bound to a name: Let(e, LAMBDA x : body) is body with x = e
Let(val, body(_)) == body(val)

IsNaN(x) == x = NaN
IsInf(x) == x = PInf \/ x = NInf
IsFin(x) == x # NaN /\ x # PInf /\ x # NInf

Abs(x) == IF IsNaN(x) THEN NaN ELSE IF x < 0 THEN 0 - x ELSE x
Sgn(x) == IF x < 0 THEN 0 - 1 ELSE IF x > 0 THEN 1 ELSE 0
Neg(x) == IF IsNaN(x) THEN NaN ELSE 0 - x

\* comparisons: every comparison with nan is false
Lt(a, b) == ~IsNaN(a) /\ ~IsNaN(b) /\ a < b
Le(a, b) == ~IsNaN(a) /\ ~IsNaN(b) /\ a <= b
Ge(a, b) == Le(b, a)
Gt(a, b) == Lt(b, a)

\* a value clipped to the range: beyond it, inf
Clip(x) == IF x >= LIMIT THEN PInf ELSE IF x <= 0 - LIMIT THEN NInf ELSE x

Add(a, b) ==
    IF IsNaN(a) \/ IsNaN(b) THEN NaN
    ELSE IF IsInf(a) THEN (IF IsInf(b) /\ b # a THEN NaN ELSE a)
    ELSE IF IsInf(b) THEN b
    ELSE Clip(a + b)
Sub(a, b) == Add(a, Neg(b))

\* n * x for a whole number n > 0
Times(n, x) ==
    IF IsNaN(x) THEN NaN
    ELSE IF Abs(x) >= LIMIT \div n THEN Sgn(x) * PInf
    ELSE n * x

\* floor(a * b / ONE) for finite a, b >= 0, without leaving 32 bits
MulAbs(a, b) ==
    LET a1 == a \div MYRIAD
        a0 == a % MYRIAD
        b1 == b \div MYRIAD
        b0 == b % MYRIAD
        t1 == a1 * b0
        t2 == a0 * b1
        lo == ((t1 % MYRIAD) + (t2 % MYRIAD) + ((a0 * b0) \div MYRIAD))
                  \div MYRIAD
    IN  IF a1 > 0 /\ b1 >= (LIMIT \div a1) THEN PInf
        ELSE Clip(a1 * b1 + (t1 \div MYRIAD) + (t2 \div MYRIAD) + lo)

Mul(a, b) ==
    IF IsNaN(a) \/ IsNaN(b) THEN NaN
    ELSE IF IsInf(a) \/ IsInf(b)
         THEN (IF a = 0 \/ b = 0 THEN NaN
               ELSE IF Sgn(a) * Sgn(b) > 0 THEN PInf ELSE NInf)
    ELSE Sgn(a) * Sgn(b) * MulAbs(Abs(a), Abs(b))

\* floor(a * ONE / b) for finite a >= 0, b > 0 with a \div b < 21: long
\* division, one decimal digit at a time
LongDiv(a, b) ==
    LET r1 == a % b
        r2 == (r1 * 10) % b
        r3 == (r2 * 10) % b
        r4 == (r3 * 10) % b
        r5 == (r4 * 10) % b
        r6 == (r5 * 10) % b
        r7 == (r6 * 10) % b
        r8 == (r7 * 10) % b
    IN  (a \div b) * ONE
        + ((r1 * 10) \div b) * 10000000 + ((r2 * 10) \div b) * 1000000
        + ((r3 * 10) \div b) * 100000 + ((r4 * 10) \div b) * 10000
        + ((r5 * 10) \div b) * 1000 + ((r6 * 10) \div b) * 100
        + ((r7 * 10) \div b) * 10 + ((r8 * 10) \div b)

\* a divisor above 2 * ONE loses its last digit, and the dividend with it
DivAbs(a, b) ==
    IF a \div b >= 21 THEN PInf
    ELSE Clip(LongDiv(IF b <= 2 * ONE THEN a ELSE a \div 10,
                      IF b <= 2 * ONE THEN b ELSE b \div 10))

\* IEEE division as numpy does it: x / 0 is inf or nan, never an exception
Div(a, b) ==
    IF IsNaN(a) \/ IsNaN(b) THEN NaN
    ELSE IF IsInf(a) THEN (IF IsInf(b) THEN NaN
                           ELSE IF Sgn(a) * (IF b < 0 THEN 0 - 1 ELSE 1) > 0
                                THEN PInf ELSE NInf)
    ELSE IF IsInf(b) THEN 0
    ELSE IF b = 0 THEN (IF a = 0 THEN NaN ELSE IF a > 0 THEN PInf ELSE NInf)
    ELSE Sgn(a) * Sgn(b) * DivAbs(Abs(a), Abs(b))

\* numpy.sqrt: nan for a negative argument (a warning, no exception);
\* Newton's iteration from (x + 1) / 2, which is above the root
RECURSIVE SqrtIter(_, _)
SqrtIter(x, y) ==
    Let((y + DivAbs(x, y)) \div 2, LAMBDA z :
        IF z >= y THEN y ELSE SqrtIter(x, z))

Sqrt(x) ==
    IF IsNaN(x) \/ x < 0 THEN NaN
    ELSE IF x = PInf THEN PInf
    ELSE IF x = 0 THEN 0
    ELSE SqrtIter(x, (x \div 2) + (ONE \div 2) + 1)

\* numpy.exp: e^x = e^n * e^f with n the whole number nearest to x, e^n
\* from a table (n = -20 .. 3) and e^f from the series, summed until its
\* terms vanish; 0 below the table and inf above it
ExpTable ==
    <<
    0, 1, 2, 4, 11, 31, 83, 226, 614, 1670, 4540, 12341, 33546, 91188,
    247875, 673795, 1831564, 4978707, 13533528, 36787944, 100000000,
    271828183, 738905610, 2008553692 >>

RECURSIVE ExpSeries(_, _, _, _)
ExpSeries(f, sum, term, k) ==
    IF term = 0 THEN sum
    ELSE ExpSeries(f, sum + term, Mul(term, f) \div k, k + 1)

ExpFin(x) ==
    LET n == (x + (ONE \div 2)) \div ONE
    IN  IF n < 0 - 20 THEN 0
        ELSE IF n > 3 THEN PInf
        ELSE Mul(ExpTable[n + 21], ExpSeries(x - n * ONE, 0, ONE, 1))

Exp(x) ==
    IF IsNaN(x) THEN NaN
    ELSE IF x = PInf THEN PInf
    ELSE IF x = NInf THEN 0
    ELSE ExpFin(x)

\* numpy.log: -inf at 0 and nan below (warnings, no exception).  The
\* argument is brought into [3/4, 3/2] by factors of 2, and there
\* ln x = 2 atanh z, z = (x - 1) / (x + 1), from the series, summed until
\* the powers of z vanish
RECURSIVE LnSeries(_, _, _, _)
LnSeries(z2, sum, pow, k) ==
    IF pow = 0 THEN sum
    ELSE LnSeries(z2, sum + (pow \div k), Mul(pow, z2), k + 2)

RECURSIVE LnFin(_)
LnFin(x) ==
    IF x > 3 * (ONE \div 2) THEN LnFin(x \div 2) + 69314718
    ELSE IF x < 3 * (ONE \div 4) THEN LnFin(2 * x) - 69314718
    ELSE Let(Div(x - ONE, x + ONE), LAMBDA z :
             2 * LnSeries(Mul(z, z), 0, z, 1))

Ln(x) ==
    IF IsNaN(x) \/ x < 0 THEN NaN
    ELSE IF x = 0 THEN NInf
    ELSE IF x = PInf THEN PInf
    ELSE LnFin(x)

\* scipy.stats.norm.pdf: exp(-x^2 / 2) / sqrt(2 pi), below the resolution
\* beyond 6
Pdf(x) ==
    IF IsNaN(x) THEN NaN
    ELSE IF IsInf(x) \/ Abs(x) > 6 * ONE THEN 0
    ELSE Mul(39894228, Exp(0 - Mul(Abs(x) \div 2, Abs(x))))

\* scipy.stats.norm.cdf, by the polynomial of Abramowitz and Stegun 26.2.17
CdfUpper(x) ==
    Let(Div(ONE, ONE + Mul(23164190, x)), LAMBDA t :
        Mul(Pdf(x),
            Mul(t, 31938153 + Mul(t, (0 - 35656378) + Mul(t, 178147794
                + Mul(t, (0 - 182125598) + Mul(t, 133027443)))))))

Cdf(x) ==
    IF IsNaN(x) THEN NaN
    ELSE IF x = PInf THEN ONE
    ELSE IF x = NInf THEN 0
    ELSE Let(CdfUpper(Abs(x)), LAMBDA upper :
             IF x >= 0 THEN ONE - upper ELSE upper)

Min(a, b) == IF Lt(b, a) THEN b ELSE a
Max(a, b) == IF Gt(b, a) THEN b ELSE a

\* ------------------------------------------------------------- constants
\* constants.py: the two steps in the spot price are in price units, the
\* other steps, the tolerance, the starting value and the rates in ratio
\* units
DELTA_DIFFERENTIAL == 1000
VEGA_DIFFERENTIAL == 10000
GAMMA_DIFFERENTIAL == 1000
RHO_DIFFERENTIAL == 10000
THETA_DIFFERENTIAL == 1000
IMPLIED_VOLATILITY_TOLERANCE == 100
SOLVER_STARTING_VALUE == 27000000
OVERNIGHT_RATE == 0
FALLBACK_RISK_FREE_RATE == 2000000

\* ------------------------------------------------------- BlackandScholes
\* Python's None: BS falls off its if/elif for any other option kind
None == NaN + 1
\* S / K is a division of Python floats: for K = 0 it raises, and the
\* exception leaves every caller
ZeroDivisionError == None + 1

\* a call whose d2 is d1 plus sigma * sqrt(T)
_BlackScholesCall_d2_above(S, K, T, sigma, r, q) ==
    IF K = 0 THEN ZeroDivisionError
    ELSE
    Let(Div(Add(Ln(Div(S, K)),
                Mul(Add(Sub(r, q), Div(Mul(sigma, sigma), 2 * ONE)), T)),
            Mul(sigma, Sqrt(T))), LAMBDA d1 :
    Let(Add(d1, Mul(sigma, Sqrt(T))), LAMBDA d2 :
        Sub(Mul(Mul(S, Exp(Neg(Mul(q, T)))), Cdf(d1)),
            Mul(Mul(K, Exp(Neg(Mul(r, T)))), Cdf(d2)))))

_BlackScholesCall(S, K, T, sigma, r, q) ==
    IF K = 0 THEN ZeroDivisionError
    ELSE
    Let(Div(Add(Ln(Div(S, K)),
                Mul(Add(Sub(r, q), Div(Mul(sigma, sigma), 2 * ONE)), T)),
            Mul(sigma, Sqrt(T))), LAMBDA d1 :
    Let(Sub(d1, Mul(sigma, Sqrt(T))), LAMBDA d2 :
        Sub(Mul(Mul(S, Exp(Neg(Mul(q, T)))), Cdf(d1)),
            Mul(Mul(K, Exp(Neg(Mul(r, T)))), Cdf(d2)))))

\* a put whose strike term is weighted at d1, not at d2
_BlackScholesPut_at_d1(S, K, T, sigma, r, q) ==
    IF K = 0 THEN ZeroDivisionError
    ELSE
    Let(Div(Add(Ln(Div(S, K)),
                Mul(Add(Sub(r, q), Div(Mul(sigma, sigma), 2 * ONE)), T)),
            Mul(sigma, Sqrt(T))), LAMBDA d1 :
        Sub(Mul(Mul(K, Exp(Neg(Mul(r, T)))), Cdf(Neg(d1))),
            Mul(Mul(S, Exp(Neg(Mul(q, T)))), Cdf(Neg(d1)))))

_BlackScholesPut(S, K, T, sigma, r, q) ==
    IF K = 0 THEN ZeroDivisionError
    ELSE
    Let(Div(Add(Ln(Div(S, K)),
                Mul(Add(Sub(r, q), Div(Mul(sigma, sigma), 2 * ONE)), T)),
            Mul(sigma, Sqrt(T))), LAMBDA d1 :
    Let(Sub(d1, Mul(sigma, Sqrt(T))), LAMBDA d2 :
        Sub(Mul(Mul(K, Exp(Neg(Mul(r, T)))), Cdf(Neg(d2))),
            Mul(Mul(S, Exp(Neg(Mul(q, T)))), Cdf(Neg(d1))))))

\* the derivative handed to the solver; its d1 is built from self.r alone
_fprime(self, sigma) ==
    LET logSoverK == Ln(Div(self.S, self.K))
        n12 == Mul(Add(self.r, Div(Mul(sigma, sigma), 2 * ONE)), self.T)
        numerd1 == Add(logSoverK, n12)
        d1 == Div(numerd1, Mul(sigma, Sqrt(self.T)))
    IN  Mul(Mul(Mul(self.S, Sqrt(self.T)), Pdf(d1)),
            Exp(Neg(Mul(self.r, self.T))))

\* a BS that picks the formula by the side of the strike
BS_by_strike(self, S, K, T, sigma, r, q) ==
    IF K <= S THEN _BlackScholesCall(S, K, T, sigma, r, q)
    ELSE _BlackScholesPut(S, K, T, sigma, r, q)

BS(self, S, K, T, sigma, r, q) ==
    IF self.option = "Call" THEN _BlackScholesCall(S, K, T, sigma, r, q)
    ELSE IF self.option = "Put" THEN _BlackScholesPut(S, K, T, sigma, r, q)
    ELSE None

\* --------------------------------------------- scipy.optimize.fsolve
\* fsolve(func, x0, fprime=..., xtol=...) runs MINPACK's hybrj (Powell's
\* hybrid method with a user Jacobian) with factor = 100, mode 1 and
\* maxfev = 100 * (n + 1).  For n = 1 the orthogonal factor of the QR
\* factorisation is +1 or -1 and cancels, so r is the Jacobian estimate
\* and qtf the residual; the step bound delta, the step length pnorm and
\* xnorm are kept divided by the scale factor diag, that is in the units
\* of x.  The machine precision epsmch (2.2e-16) is below the resolution
\* of the arithmetic: epsmch * xnorm is 0, and the value dogleg puts in
\* place of a zero diagonal is the smallest positive one.
FACTOR == 10 * 10
MAXFEV == 100 * (1 + 1)
EPSMCH == 0 * 1
TINY == 1 * 1
P1 == ONE \div 10
P5 == ONE \div 2
P001 == ONE \div 1000
P0001 == ONE \div 10000

\* dogleg for n = 1: the Gauss-Newton step qtb / r when it lies inside the
\* trust region, else the step of length delta along it
dogleg(r, qtb, delta) ==
    IF IsNaN(r) \/ IsNaN(qtb) \/ IsNaN(delta) THEN NaN
    ELSE
    Let(IF r = 0 THEN TINY ELSE r, LAMBDA temp :
    Let(Div(qtb, temp), LAMBDA gn :
        IF Le(Abs(gn), delta) THEN gn
        ELSE Sgn(temp) * Sgn(qtb) * delta))

\* The state of hybrj: the iterate x with its residual fvec, the Jacobian
\* estimate r, the work values wa1 (the step p), wa2 (x + p), wa4 (the
\* residual at x + p), and the counters of the Fortran code.  The passes
\* below are the statements of one turn of its inner loop, in their order.

\* the outer loop's head: evaluate the Jacobian, set or rescale diag; on
\* the first iteration compute xnorm and the initial step bound
hybrjJacobian(fprime(_), h) ==
    IF ~h.needjac THEN [h EXCEPT !.jeval = FALSE]
    ELSE
    Let(fprime(h.x), LAMBDA fjac :
    Let(Abs(fjac), LAMBDA wa2j :
    Let(IF h.iter = 1 THEN (IF wa2j = 0 THEN PRICE ELSE wa2j)
        ELSE h.diag, LAMBDA diag0 :
    Let(IF h.iter = 1 THEN Abs(h.x) ELSE h.xnorm, LAMBDA xnorm0 :
    Let(IF h.iter # 1 THEN h.delta
        ELSE IF xnorm0 = 0 THEN FACTOR * ONE
        ELSE Times(FACTOR, xnorm0), LAMBDA delta0 :
    \* rescale: diag = max(diag, wa2); delta and xnorm keep their scaled
    \* values
    Let(Max(diag0, wa2j), LAMBDA diag :
        [h EXCEPT !.r = fjac, !.qtf = h.fvec, !.diag = diag,
                  !.xnorm = IF diag = diag0 THEN xnorm0
                            ELSE Div(Mul(xnorm0, diag0), diag),
                  !.delta = IF diag = diag0 THEN delta0
                            ELSE Div(Mul(delta0, diag0), diag),
                  !.jeval = TRUE]))))))

\* determine the direction p; store p and x + p; on the first iteration
\* adjust the initial step bound
hybrjStep(h) ==
    Let(Neg(dogleg(h.r, h.qtf, h.delta)), LAMBDA wa1 :
        [h EXCEPT !.wa1 = wa1, !.wa2 = Add(h.x, wa1), !.pnorm = Abs(wa1),
                  !.delta = IF h.iter = 1 THEN Min(h.delta, Abs(wa1))
                            ELSE h.delta])

\* evaluate the function at x + p
hybrjEval(func(_), h) ==
    [h EXCEPT !.wa4 = func(h.wa2), !.nfev = h.nfev + 1]

\* a test for convergence on the residual: it is below the tolerance, at
\* the scale of the prices
hybrjConverged_on_residual(xtol, delta, xnorm, fnorm) ==
    Lt(fnorm, xtol \div (ONE \div PRICE))

\* the test for convergence: the step bound is at most xtol times the
\* length of the iterate, or the residual is exactly zero
hybrjConverged(xtol, delta, xnorm, fnorm) ==
    Le(delta, Mul(xtol, xnorm)) \/ fnorm = 0

\* compute the scaled actual and predicted reductions and their ratio,
\* update the step bound, accept or reject the step, test for convergence
\* and termination, and update the Jacobian estimate (Broyden's rank one
\* modification, for n = 1 the secant slope through the last two points)
hybrjUpdate(xtol, h) ==
    Let(Abs(h.wa4), LAMBDA fnorm1 :
    Let(Div(fnorm1, h.fnorm), LAMBDA q1 :
    Let(IF Lt(fnorm1, h.fnorm) THEN Sub(ONE, Mul(q1, q1))
        ELSE 0 - ONE, LAMBDA actred :
    Let(Add(h.qtf, Mul(h.r, h.wa1)), LAMBDA wa3 :
    Let(Abs(wa3), LAMBDA temp :
    Let(Div(temp, h.fnorm), LAMBDA q2 :
    Let(IF Lt(temp, h.fnorm) THEN Sub(ONE, Mul(q2, q2))
        ELSE 0, LAMBDA prered :
    Let(IF Gt(prered, 0) THEN Div(actred, prered) ELSE 0, LAMBDA ratio :
    Let(Ge(ratio, P1), LAMBDA good :
    Let(IF good THEN h.ncsuc + 1 ELSE 0, LAMBDA ncsuc :
    Let(IF good THEN 0 ELSE h.ncfail + 1, LAMBDA ncfail :
    Let(Div(h.pnorm, P5), LAMBDA twice :
    Let(IF ~good THEN Mul(P5, h.delta)
        ELSE IF Le(Abs(Sub(ratio, ONE)), P1) THEN twice
        ELSE IF Ge(ratio, P5) \/ ncsuc > 1 THEN Max(h.delta, twice)
        ELSE h.delta, LAMBDA delta :
    Let(Ge(ratio, P0001), LAMBDA succ :
    Let(IF succ THEN Abs(h.wa2) ELSE h.xnorm, LAMBDA xnorm :
    Let(IF succ THEN fnorm1 ELSE h.fnorm, LAMBDA fnorm :
    Let(IF Ge(actred, P001) THEN 0 ELSE h.nslow1 + 1, LAMBDA nslow1 :
    Let(IF Ge(actred, P1) THEN 0
        ELSE IF h.jeval THEN h.nslow2 + 1
        ELSE h.nslow2, LAMBDA nslow2 :
    \* the last test that holds decides; the test
    \* p1 * max(p1 * delta, pnorm) <= epsmch * xnorm has 0 on its right
    Let(IF hybrjConverged(xtol, delta, xnorm, fnorm) THEN 1
        ELSE IF nslow1 = 10 THEN 5
        ELSE IF nslow2 = 5 THEN 4
        ELSE IF Le(Max(delta, h.pnorm), Mul(EPSMCH, xnorm)) THEN 3
        ELSE IF h.nfev >= MAXFEV THEN 2
        ELSE 0, LAMBDA info :
        [h EXCEPT !.x = IF succ THEN h.wa2 ELSE h.x,
                  !.fvec = IF succ THEN h.wa4 ELSE h.fvec,
                  !.fnorm = fnorm, !.xnorm = xnorm,
                  !.iter = IF succ THEN h.iter + 1 ELSE h.iter,
                  !.r = Add(h.r, Div(Sub(h.wa4, wa3), h.wa1)),
                  !.qtf = IF succ THEN h.wa4 ELSE h.qtf,
                  !.delta = delta, !.ncsuc = ncsuc, !.ncfail = ncfail,
                  !.nslow1 = nslow1, !.nslow2 = nslow2, !.info = info,
                  !.needjac = (ncfail = 2)])))))))))))))))))))

hybrjIter(func(_), fprime(_), xtol, h) ==
    hybrjUpdate(xtol, hybrjEval(func, hybrjStep(hybrjJacobian(fprime, h))))

\* an exception raised by func leaves hybrj with it; the one func raises
\* here does not depend on x, so the first evaluation decides
hybrj(func(_), fprime(_), x0, xtol) ==
    LET RECURSIVE loop(_)
        loop(h) == IF h.info # 0 THEN h
                   ELSE loop(hybrjIter(func, fprime, xtol, h))
    IN  Let(func(x0), LAMBDA f0 :
            IF f0 = ZeroDivisionError
            THEN [x |-> x0, info |-> 0, nfev |-> 1, fnorm |-> NaN,
                  delta |-> 0, xnorm |-> 0, exc |-> "ZeroDivisionError"]
            ELSE loop([x |-> x0, fvec |-> f0, fnorm |-> Abs(f0),
                       xnorm |-> 0, r |-> 0, qtf |-> 0, diag |-> 0,
                       delta |-> 0, iter |-> 1, wa1 |-> 0, wa2 |-> 0,
                       wa4 |-> 0, pnorm |-> 0, ncsuc |-> 0, ncfail |-> 0,
                       nslow1 |-> 0, nslow2 |-> 0, nfev |-> 1, info |-> 0,
                       needjac |-> TRUE, jeval |-> TRUE, exc |-> ""]))

\* fsolve returns the array of the last iterate; a status other than 1
\* is a RuntimeWarning (scipy raises no exception for it)
fsolve(func(_), x0, fprime(_), xtol) ==
    Let(hybrj(func, fprime, x0, xtol), LAMBDA retval :
        [x |-> << retval.x >>, ier |-> retval.info,
         warned |-> retval.info \in {2, 3, 4, 5}, nfev |-> retval.nfev,
         x0 |-> x0, fnorm |-> retval.fnorm, delta |-> retval.delta,
         xnorm |-> retval.xnorm,
         exc |-> retval.exc])

\* ----------------------------------- BlackandScholes: solve and Greeks
\* A method is an operator from the instance to what the call does: the
\* value it returns (ret) or the exception that leaves it (exc), the
\* instance as the call leaves it (self), the argument lists of the BS
\* evaluations it makes (bs) and the number of implied-volatility solves
\* it runs (solves).

\* the lambda of implied_volatility: BS at the instance's inputs and the
\* volatility x, minus the observed premium
impvol(self, x) ==
    Let(BS(self, self.S, self.K, self.T, x, self.r, self.q), LAMBDA p :
        IF p = ZeroDivisionError THEN p ELSE Sub(p, self.opt_price))

\* an implied_volatility that raises when fsolve reports no convergence
implied_volatility_checked(self) ==
    Let(fsolve(LAMBDA x : impvol(self, x), SOLVER_STARTING_VALUE,
               LAMBDA x : _fprime(self, x), IMPLIED_VOLATILITY_TOLERANCE),
        LAMBDA iv :
            [exc |-> IF iv.exc = "" /\ iv.ier # 1 THEN "RuntimeError"
                     ELSE iv.exc,
             ret |-> IF iv.exc = "" /\ iv.ier = 1 THEN iv.x[1] ELSE None,
             ier |-> iv.ier, nfev |-> iv.nfev, x0 |-> iv.x0,
             fnorm |-> iv.fnorm, delta |-> iv.delta, xnorm |-> iv.xnorm])

\* returns iv[0]; the status fsolve reports is not asked for (no
\* full_output), so it is kept here only as what the run was
implied_volatility(self) ==
    Let(fsolve(LAMBDA x : impvol(self, x), SOLVER_STARTING_VALUE,
               LAMBDA x : _fprime(self, x), IMPLIED_VOLATILITY_TOLERANCE),
        LAMBDA iv :
            [exc |-> iv.exc, ret |-> IF iv.exc = "" THEN iv.x[1] ELSE None,
             ier |-> iv.ier, nfev |-> iv.nfev, x0 |-> iv.x0,
             fnorm |-> iv.fnorm, delta |-> iv.delta, xnorm |-> iv.xnorm])

\* what is kept of a solve: fsolve's status and number of evaluations,
\* the starting value, and the residual, step bound and length of the
\* iterate hybrj ended with
status(m) ==
    [ier |-> m.ier, nfev |-> m.nfev, x0 |-> m.x0, fnorm |-> m.fnorm,
     delta |-> m.delta, xnorm |-> m.xnorm]

\* BlackandScholes.__init__: stores its arguments as they come and solves
BlackandScholes(S, K, T, price, r, option, q) ==
    Let(implied_volatility([S |-> S, K |-> K, T |-> T, option |-> option,
                            q |-> q, r |-> r, opt_price |-> price]),
        LAMBDA iv :
            [exc |-> iv.exc,
             self |-> [S |-> S, K |-> K, T |-> T, option |-> option,
                       q |-> q, r |-> r, opt_price |-> price,
                       impvol |-> iv.ret],
             solves |-> 1, ier |-> iv.ier, nfev |-> iv.nfev, x0 |-> iv.x0,
             fnorm |-> iv.fnorm, delta |-> iv.delta, xnorm |-> iv.xnorm])

\* a delta that divides the difference by h, not by 2h
delta_by_h(self) ==
    LET h == DELTA_DIFFERENTIAL
        a1 == <<Add(self.S, h), self.K, self.T, self.impvol, self.r, self.q>>
        a2 == <<Sub(self.S, h), self.K, self.T, self.impvol, self.r, self.q>>
        p1 == BS(self, a1[1], a1[2], a1[3], a1[4], a1[5], a1[6])
        p2 == BS(self, a2[1], a2[2], a2[3], a2[4], a2[5], a2[6])
    IN  [ret |-> Div(Sub(p1, p2), h), self |-> self,
         bs |-> <<a1, a2>>, solves |-> 0]

delta(self) ==
    LET h == DELTA_DIFFERENTIAL
        a1 == <<Add(self.S, h), self.K, self.T, self.impvol, self.r, self.q>>
        a2 == <<Sub(self.S, h), self.K, self.T, self.impvol, self.r, self.q>>
        p1 == BS(self, a1[1], a1[2], a1[3], a1[4], a1[5], a1[6])
        p2 == BS(self, a2[1], a2[2], a2[3], a2[4], a2[5], a2[6])
    IN  [ret |-> Div(Sub(p1, p2), 2 * h), self |-> self,
         bs |-> <<a1, a2>>, solves |-> 0]

\* a gamma that prices at the solver's starting value
gamma_at_start(self) ==
    LET h == GAMMA_DIFFERENTIAL
        v == SOLVER_STARTING_VALUE
        a1 == <<Add(self.S, h), self.K, self.T, v, self.r, self.q>>
        a2 == <<self.S, self.K, self.T, v, self.r, self.q>>
        a3 == <<Sub(self.S, h), self.K, self.T, v, self.r, self.q>>
        p1 == BS(self, a1[1], a1[2], a1[3], a1[4], a1[5], a1[6])
        p2 == BS(self, a2[1], a2[2], a2[3], a2[4], a2[5], a2[6])
        p3 == BS(self, a3[1], a3[2], a3[3], a3[4], a3[5], a3[6])
    IN  [ret |-> Div(Add(Sub(p1, Times(2, p2)), p3), (h * h) \div PRICE),
         self |-> self, bs |-> <<a1, a2, a3>>, solves |-> 0]

\* h ** 2 is one unit of the price scale
gamma(self) ==
    LET h == GAMMA_DIFFERENTIAL
        a1 == <<Add(self.S, h), self.K, self.T, self.impvol, self.r, self.q>>
        a2 == <<self.S, self.K, self.T, self.impvol, self.r, self.q>>
        a3 == <<Sub(self.S, h), self.K, self.T, self.impvol, self.r, self.q>>
        p1 == BS(self, a1[1], a1[2], a1[3], a1[4], a1[5], a1[6])
        p2 == BS(self, a2[1], a2[2], a2[3], a2[4], a2[5], a2[6])
        p3 == BS(self, a3[1], a3[2], a3[3], a3[4], a3[5], a3[6])
    IN  [ret |-> Div(Add(Sub(p1, Times(2, p2)), p3), (h * h) \div PRICE),
         self |-> self, bs |-> <<a1, a2, a3>>, solves |-> 0]

\* a vega that moves the stored volatility up and does not move it back
vega_in_place(self) ==
    LET h == VEGA_DIFFERENTIAL
        a1 == <<self.S, self.K, self.T, Add(self.impvol, h), self.r, self.q>>
        a2 == <<self.S, self.K, self.T, Sub(self.impvol, h), self.r, self.q>>
        p1 == BS(self, a1[1], a1[2], a1[3], a1[4], a1[5], a1[6])
        p2 == BS(self, a2[1], a2[2], a2[3], a2[4], a2[5], a2[6])
    IN  [ret |-> Div(Sub(p1, p2), 2 * h * 100),
         self |-> [self EXCEPT !.impvol = a1[4]],
         bs |-> <<a1, a2>>, solves |-> 0]

vega(self) ==
    LET h == VEGA_DIFFERENTIAL
        a1 == <<self.S, self.K, self.T, Add(self.impvol, h), self.r, self.q>>
        a2 == <<self.S, self.K, self.T, Sub(self.impvol, h), self.r, self.q>>
        p1 == BS(self, a1[1], a1[2], a1[3], a1[4], a1[5], a1[6])
        p2 == BS(self, a2[1], a2[2], a2[3], a2[4], a2[5], a2[6])
    IN  [ret |-> Div(Sub(p1, p2), 2 * h * 100), self |-> self,
         bs |-> <<a1, a2>>, solves |-> 0]

\* a theta per year, not per day
theta_per_year(self) ==
    LET h == THETA_DIFFERENTIAL
        a1 == <<self.S, self.K, Add(self.T, h), self.impvol, self.r, self.q>>
        a2 == <<self.S, self.K, Sub(self.T, h), self.impvol, self.r, self.q>>
        p1 == BS(self, a1[1], a1[2], a1[3], a1[4], a1[5], a1[6])
        p2 == BS(self, a2[1], a2[2], a2[3], a2[4], a2[5], a2[6])
    IN  [ret |-> Div(Sub(p1, p2), 2 * h), self |-> self,
         bs |-> <<a1, a2>>, solves |-> 0]

theta(self) ==
    LET h == THETA_DIFFERENTIAL
        a1 == <<self.S, self.K, Add(self.T, h), self.impvol, self.r, self.q>>
        a2 == <<self.S, self.K, Sub(self.T, h), self.impvol, self.r, self.q>>
        p1 == BS(self, a1[1], a1[2], a1[3], a1[4], a1[5], a1[6])
        p2 == BS(self, a2[1], a2[2], a2[3], a2[4], a2[5], a2[6])
    IN  [ret |-> Div(Sub(p1, p2), 2 * h * 365), self |-> self,
         bs |-> <<a1, a2>>, solves |-> 0]

rho(self) ==
    LET h == RHO_DIFFERENTIAL
        a1 == <<self.S, self.K, self.T, self.impvol, Add(self.r, h), self.q>>
        a2 == <<self.S, self.K, self.T, self.impvol, Sub(self.r, h), self.q>>
        p1 == BS(self, a1[1], a1[2], a1[3], a1[4], a1[5], a1[6])
        p2 == BS(self, a2[1], a2[2], a2[3], a2[4], a2[5], a2[6])
    IN  [ret |-> Div(Sub(p1, p2), 2 * h * 100), self |-> self,
         bs |-> <<a1, a2>>, solves |-> 0]

\* ------------------------------------------------------------- riskfree
\* the maturities of the curve's nodes, in months (the tuple years is
\* these over 12)
years == <<0, 1, 2, 3, 6, 12, 24, 36, 60, 84, 120, 240, 360>>

\* the par yields of the last daily entry, BC_1MONTH to BC_30YEAR, in
\* hundredths of a percent
Published == <<530, 535, 540, 530, 480, 430, 410, 400, 405, 410, 440, 425>>

\* rates: the overnight node, then each yield over 100
rates ==
    <<OVERNIGHT_RATE>> \o [k \in 1..Len(Published) |-> Published[k] * MYRIAD]

\* how the request to the treasury source ends: with a document that
\* parses, or with the exception raised by requests.get (ConnectionError),
\* ET.fromstring (ParseError), days[-1] on no daily entry (IndexError),
\* node.text on a missing maturity field (AttributeError) or float() of a
\* non-numeric field (ValueError)
Failures ==
    {"ConnectionError", "ParseError", "IndexError", "AttributeError",
     "ValueError"}
Responses == {"ok"} \cup Failures

\* the two functions riskfree returns
interp1d(x, y) == [kind |-> "interp1d", x |-> x, y |-> y]
constant(value) == [kind |-> "lambda", x |-> <<>>, y |-> <<value>>]

\* a riskfree that catches the failure of the request alone
riskfree_request_only(response) ==
    IF response = "ok" THEN [exc |-> "", ret |-> interp1d(years, rates)]
    ELSE IF response = "ConnectionError"
    THEN [exc |-> "", ret |-> constant(FALLBACK_RISK_FREE_RATE)]
    ELSE [exc |-> response, ret |-> None]

riskfree(response) ==
    IF response = "ok" THEN [exc |-> "", ret |-> interp1d(years, rates)]
    ELSE [exc |-> "", ret |-> constant(FALLBACK_RISK_FREE_RATE)]

\* a time to expiry is a number of days, T = days / 365
DAYS_PER_YEAR == 365
MONTHS_PER_YEAR == 12

\* the call f(T) of a function riskfree returned, T = days / 365.
\* interp1d is built with its defaults (kind linear, bounds_error on): a T
\* outside the nodes raises ValueError.
curve(f, days) ==
    IF f.kind = "lambda" THEN [exc |-> "", ret |-> f.y[1]]
    ELSE IF \/ MONTHS_PER_YEAR * days < DAYS_PER_YEAR * f.x[1]
            \/ MONTHS_PER_YEAR * days > DAYS_PER_YEAR * f.x[Len(f.x)]
    THEN [exc |-> "ValueError", ret |-> None]
    ELSE Let(CHOOSE k \in 1..(Len(f.x) - 1) :
                 /\ DAYS_PER_YEAR * f.x[k] <= MONTHS_PER_YEAR * days
                 /\ MONTHS_PER_YEAR * days <= DAYS_PER_YEAR * f.x[k + 1],
             LAMBDA k :
                 [exc |-> "",
                  ret |-> Add(f.y[k],
                              Mul(f.y[k + 1] - f.y[k],
                                  Div(MONTHS_PER_YEAR * days
                                        - DAYS_PER_YEAR * f.x[k],
                                      DAYS_PER_YEAR
                                        * (f.x[k + 1] - f.x[k]))))])

\* ---------------------------------------------------------- Option.rate
Classes == {"Option", "Call", "Put"}

\* a class and its bases, in the order attribute lookup visits them
mro(cls) ==
    IF cls = "Put" THEN <<"Put", "Call", "Option">>
    ELSE IF cls = "Call" THEN <<"Call", "Option">>
    ELSE <<"Option">>

\* no attribute _rate in the class's own namespace
Unset == [id |-> 0, f |-> [kind |-> "", x |-> <<>>, y |-> <<>>]]

\* hasattr(cls, '_rate') and getattr(cls, '_rate') in the namespaces ns
hasattr(ns, cls) == \E k \in 1..Len(mro(cls)) : ns[mro(cls)[k]].id # 0

getattr(ns, cls) ==
    ns[mro(cls)[CHOOSE k \in 1..Len(mro(cls)) :
                    /\ ns[mro(cls)[k]].id # 0
                    /\ \A j \in 1..(k - 1) : ns[mro(cls)[j]].id = 0]]

\* the class property rate read through cls, with the namespaces ns and n
\* calls of riskfree so far: the namespaces and the count after it, the
\* response riskfree met if it was called, and the function returned.
\* Each function riskfree returns is a new object, told apart by id.
rate(ns, n, cls, response) ==
    IF hasattr(ns, cls)
    THEN [exc |-> "", ns |-> ns, n |-> n, fetch |-> <<>>,
          ret |-> getattr(ns, cls)]
    ELSE Let(riskfree(response), LAMBDA f :
             IF f.exc # ""
             THEN [exc |-> f.exc, ns |-> ns, n |-> n + 1,
                   fetch |-> <<response>>, ret |-> Unset]
             ELSE [exc |-> "",
                   ns |-> [ns EXCEPT ![cls] = [id |-> n + 1, f |-> f.ret]],
                   n |-> n + 1, fetch |-> <<response>>,
                   ret |-> [id |-> n + 1, f |-> f.ret]])


\* ------------------------------------------------------------ the inputs
\* The inputs a BlackandScholes is constructed from.  The first set prices
\* the option at a volatility sigma0 and hands that price over as the
\* observed premium; the second gives the premium itself.
Spot == 100 * PRICE
PCT == ONE \div 100

Quoted(K, T, r, q, option, sigma0) ==
    [S |-> Spot, K |-> K, T |-> T, r |-> r, q |-> q, option |-> option,
     price |-> BS([option |-> option], Spot, K, T, sigma0, r, q),
     sigma0 |-> sigma0]

Given(K, T, price, r, q, option) ==
    [S |-> Spot, K |-> K, T |-> T, r |-> r, q |-> q, option |-> option,
     price |-> price, sigma0 |-> None]

NearTheMoney ==
    { Quoted(K * PRICE, 50 * PCT, 5 * PCT, q * PCT, option, sigma0 * PCT) :
        K \in {90, 100, 110}, q \in {0, 2}, option \in {"Call", "Put"},
        sigma0 \in {20, 50} }

\* two weeks to expiry, spot at twice the strike
DeepInTheMoney ==
    { Quoted(50 * PRICE, 2 * PCT, 0, q * PCT, "Call", 200 * PCT) :
        q \in {0, 2} }

\* expiry today (T = 0), a negative and a zero strike, and the premium
\* 6.80 of a half-year at-the-money call
Degenerate ==
    { Given(100 * PRICE, 0, 5 * PRICE, 5 * PCT, 0, "Call"),
      Given(90 * PRICE, 0, 10 * PRICE + PRICE \div 2, 5 * PCT, 0, "Call"),
      Given(110 * PRICE, 0, 10 * PRICE + PRICE \div 2, 5 * PCT, 0, "Put"),
      Given(0 - 90 * PRICE, 50 * PCT, 5 * PRICE, 5 * PCT, 0, "Call"),
      Given(0, 50 * PCT, 5 * PRICE, 5 * PCT, 0, "Call"),
      Given(100 * PRICE, 50 * PCT, 6 * PRICE + 8 * (PRICE \div 10), 5 * PCT,
            0, "Call") }

\* a two-year at-the-money call on an underlying at 1000, its premium
\* 0.00006 below its price at the solver's starting value
NearTheStart ==
    { [S |-> 10 * Spot, K |-> 10 * Spot, T |-> 200 * PCT, r |-> 5 * PCT,
       q |-> 0, option |-> "Call",
       price |-> BS([option |-> "Call"], 10 * Spot, 10 * Spot, 200 * PCT,
                    SOLVER_STARTING_VALUE, 5 * PCT, 0) - 60,
       sigma0 |-> None] }

Inputs == NearTheMoney \cup DeepInTheMoney \cup Degenerate \cup NearTheStart

\* the arguments BS is evaluated at on its own.  Zero has no sign in this
\* arithmetic, so the one product that is -0.0 in IEEE arithmetic,
\* sigma * sqrt(T) for sigma < 0 and T = 0, is left out.
Points ==
    { a \in { <<Spot, K * PRICE, T * PCT, sigma * PCT, 5 * PCT, 2 * PCT>> :
               K \in {90, 110}, T \in {0 - 50, 0, 50},
               sigma \in {0 - 20, 0, 20} } :
        ~(a[3] = 0 /\ a[4] < 0) }

\* a grid of volatilities over (0.01, 3.0), at half a year and at two
\* weeks to expiry
Sigmas == {2, 10, 20, 50, 100, 200, 290}

Grid ==
    { <<Spot, K * PRICE, T * PCT, sigma * PCT, 5 * PCT, 2 * PCT>> :
        K \in {90, 110}, T \in {4, 50}, sigma \in Sigmas }

Greeks == {"delta", "gamma", "vega", "theta", "rho"}

\* ------------------------------------------------------------ the market
\* The market as the library sees it: one underlying at the spot price
\* Spot paying no dividend, and expirations, the last Expiry days ahead,
\* with the same listed strikes for calls and puts.  Dates are counted in
\* days from today.
Expiry == 146
dy == 0
strikes == <<100 * PRICE, 110 * PRICE>>

\* what regularMarketPrice of the underlying's quote can be when it is
\* fetched, and the two reads of self.underlying.price in set_strike on a
\* quote that stays at Spot
Spots == {Spot, Spot + 5 * PRICE}
Still == <<Spot, Spot>>

\* the expirations the chain may list, and the dates asked for: these
\* and one between the first two
Days == {Expiry - 22, Expiry - 10, Expiry}
Wanted == Days \cup {Expiry - 14}

\* a chain lists expirations (expirationDates) and has calls and puts
\* for some of them; the chain fetched for a date it has no contracts
\* for comes with empty lists
Markets ==
    UNION { { [exp |-> e, calls |-> c, puts |-> p] :
                c \in SUBSET e, p \in SUBSET e } : e \in SUBSET Days }

\* the chain with calls and puts at the one expiration Expiry
Listed == [exp |-> {Expiry}, calls |-> {Expiry}, puts |-> {Expiry}]

\* lastPrice of the contract of class cls at a listed strike
lastPrice(cls, strike) ==
    IF cls = "Call"
    THEN (IF strike = strikes[1] THEN 6 * PRICE + 8 * (PRICE \div 10)
          ELSE 3 * PRICE)
    ELSE (IF strike = strikes[1] THEN 5 * PRICE
          ELSE 11 * PRICE + PRICE \div 2)

\* bid and ask of that contract: five cents either side
bid(cls, strike) == lastPrice(cls, strike) - PRICE \div 20
ask(cls, strike) == lastPrice(cls, strike) + PRICE \div 20

\* the rates a valuation of this market can be handed
ChainRates ==
    {curve(interp1d(years, rates), Expiry).ret, FALLBACK_RISK_FREE_RATE}

\* BlackandScholes and its Greeks are functions of their arguments: each
\* is evaluated once at the arguments it is called with, the inputs above
\* and the arguments this market produces
Solved ==
    [a \in Inputs |->
        BlackandScholes(a.S, a.K, a.T, a.price, a.r, a.option, a.q)]

\* the arguments set_strike hands to BlackandScholes in this market: spot,
\* strike, premium, rate and option kind
Quotes ==
    { <<S, strikes[k], lastPrice(cls, strikes[k]), r, cls>> :
        S \in Spots, k \in 1..Len(strikes), r \in ChainRates,
        cls \in {"Call", "Put"} }

Valued ==
    [a \in Quotes |->
        BlackandScholes(a[1], a[2], Div(Expiry, DAYS_PER_YEAR), a[3], a[4],
                        a[5], dy)]

Instances ==
    { m.self : m \in { n \in { Solved[a] : a \in Inputs }
                                \cup { Valued[a] : a \in Quotes } :
                          n.exc = "" } }

deltaAt == [self \in Instances |-> delta(self)]
gammaAt == [self \in Instances |-> gamma(self)]
vegaAt == [self \in Instances |-> vega(self)]
thetaAt == [self \in Instances |-> theta(self)]
rhoAt == [self \in Instances |-> rho(self)]

\* BS reads of self its option alone
BSAt ==
    [option \in {"Call", "Put"} |->
        [a \in Points \cup Grid |->
            BS([option |-> option], a[1], a[2], a[3], a[4], a[5], a[6])]]

\* ------------------------------------------------------- Call and Put
\* an Option object as __new__ returns it
object(cls) ==
    [cls |-> cls, _has_run |-> FALSE, _skip_dates |-> {},
     _expiration |-> None, expirations |-> {}, T |-> None, q |-> None,
     strike |-> None, _price |-> None, _bid |-> None, _ask |-> None,
     itm |-> FALSE, BandS |-> 0]

\* min(self._exp, key=lambda x: abs(x - self._expiration)): the first of
\* the nearest dates, the list being in ascending order
closest_date(_exp, _expiration) ==
    CHOOSE x \in _exp :
        \A y \in _exp :
            \/ Abs(x - _expiration) < Abs(y - _expiration)
            \/ Abs(x - _expiration) = Abs(y - _expiration) /\ x <= y

\* a test for the fallback that does not ask for strict
falls_back_when_strict(self, strict) == ~self._has_run

\* all((d, m, y)) and not self._has_run and not strict: d, m and y are
\* those of a date, none of them 0
falls_back(self, strict) == ~self._has_run /\ ~strict

\* Option.__init__(quote, opt_type, d, m, y, strict) on self, the date
\* d/m/y being `date': what it raises, the object as it leaves it and the
\* dates it fetched the chain for, in order.  Each run constructs the
\* Stock and fetches the chain once.  The call self.__init__ of the
\* fallback is Call.__init__ with no strike and strict = False: it runs
\* this method and then sets T, q, strike and strikes, as the
\* Call.__init__ that called does after it.
RECURSIVE Option__init__(_, _, _, _)
Option__init__(chain, self, date, strict) ==
    Let(chain.exp \ self._skip_dates, LAMBDA _exp :
    Let([self EXCEPT !.expirations = _exp, !._expiration = date],
        LAMBDA set :
        IF date \in (IF self.cls = "Call" THEN chain.calls ELSE chain.puts)
        THEN [exc |-> "", msg |-> "", excargs |-> {}, self |-> set,
              fetch |-> <<date>>]
        ELSE
        Let(IF date \in _exp
            THEN [set EXCEPT !._skip_dates = @ \cup {date},
                             !._has_run = FALSE]
            ELSE set, LAMBDA skipped :
            IF ~falls_back(skipped, strict)
            THEN [exc |-> "ValueError",
                  msg |-> "Possible expiration dates for this option are:",
                  excargs |-> _exp, self |-> skipped, fetch |-> <<date>>]
            ELSE IF _exp \ {date} = {}
            THEN [exc |-> "ValueError",
                  msg |-> "min() arg is an empty sequence",
                  excargs |-> {}, self |-> skipped, fetch |-> <<date>>]
            ELSE Let(Option__init__(chain,
                                    [skipped EXCEPT !._has_run = TRUE],
                                    closest_date(_exp \ {date}, date),
                                    FALSE),
                     LAMBDA again :
                         [again EXCEPT !.fetch = <<date>> \o @]))))

\* the strike asked for, whether listed or not
closest_as_asked(strike) == strike

\* min(self.strikes, key=lambda x: abs(x - strike))
closest(strike) ==
    strikes[CHOOSE k \in 1..Len(strikes) :
                /\ \A j \in 1..Len(strikes) :
                       Abs(strikes[k] - strike) <= Abs(strikes[j] - strike)
                /\ \A j \in 1..(k - 1) :
                       Abs(strikes[j] - strike) > Abs(strikes[k] - strike)]

\* what a call on an option object leaves behind: the exception it raised
\* if any, with its message and arguments, the object, the
\* BlackandScholes it constructed, the class namespaces, the count of
\* riskfree calls, the response riskfree met, the function the class
\* property rate returned, the dates the chain was fetched for and the
\* number of fetches of the underlying's quote
Outcome(exc, self, made, c) ==
    [exc |-> exc, self |-> self, made |-> made, ns |-> c.ns, n |-> c.n,
     fetch |-> c.fetch, curve |-> c.ret, msg |-> "", excargs |-> {},
     chain |-> <<>>, quotes |-> 0, prices |-> <<>>]

\* the class property rate not read
unread(ns, n) == [ns |-> ns, n |-> n, fetch |-> <<>>, ret |-> Unset]

\* a set_strike that stores val before it looks it up, and raises
set_strike_stored_first(ns, n, new, self, val, price, response) ==
    [Outcome("LookupError", [self EXCEPT !.strike = val], <<>>,
             unread(ns, n))
        EXCEPT !.msg = "No options listed for given strike price."]

\* self.set_strike(val); new is the identity the next BlackandScholes
\* gets.  self.underlying.price is read for itm and again for
\* BlackandScholes, and each read fetches the quote: price[1] and
\* price[2] are what the two reads return.
set_strike(ns, n, new, self, val, price, response) ==
    IF \A k \in 1..Len(strikes) : strikes[k] # val
    THEN [Outcome("LookupError", self, <<>>, unread(ns, n))
             EXCEPT !.msg = "No options listed for given strike price."]
    ELSE Let([self EXCEPT !.strike = val,
                          !._price = lastPrice(self.cls, val),
                          !._bid = bid(self.cls, val),
                          !._ask = ask(self.cls, val),
                          !.itm = IF self.cls = "Call" THEN price[1] > val
                                  ELSE price[1] < val],
         LAMBDA set :
         Let(rate(ns, n, self.cls, response), LAMBDA c :
         Let(IF c.exc # "" THEN Outcome(c.exc, set, <<>>, c)
             ELSE Let(curve(c.ret.f, self._expiration), LAMBDA r :
                      IF r.exc # "" THEN Outcome(r.exc, set, <<>>, c)
                      ELSE Let(Valued[<<price[2], val, set._price, r.ret,
                                        self.cls>>],
                           LAMBDA m :
                               IF m.exc # "" THEN Outcome(m.exc, set, <<>>, c)
                               ELSE Outcome("",
                                            [set EXCEPT !.BandS = new],
                                            <<m>>, c))),
             LAMBDA e : [e EXCEPT !.quotes = 2, !.prices = price])))

\* Call.__init__(quote, d, m, y, strike, strict) on self, the date d/m/y
\* being `date'
Call__init__(chain, ns, n, new, self, date, strike, strict, price, response) ==
    Let(Option__init__(chain, self, date, strict), LAMBDA o :
        IF o.exc # ""
        THEN [Outcome(o.exc, o.self, <<>>, unread(ns, n))
                 EXCEPT !.msg = o.msg, !.excargs = o.excargs,
                        !.chain = o.fetch, !.quotes = Len(o.fetch)]
        ELSE
        Let([o.self EXCEPT !.T = Div(o.self._expiration, DAYS_PER_YEAR),
                           !.q = dy, !.strike = None],
            LAMBDA fresh :
        Let(IF strike = None
            THEN Outcome("", fresh, <<>>, unread(ns, n))
            ELSE IF strict /\ \A k \in 1..Len(strikes) : strikes[k] # strike
            THEN [Outcome("LookupError", fresh, <<>>, unread(ns, n))
                     EXCEPT !.msg =
                         "No options listed for given strike price."]
            ELSE set_strike(ns, n, new, fresh,
                            IF \E k \in 1..Len(strikes) : strikes[k] = strike
                            THEN strike ELSE closest(strike),
                            price, response),
            LAMBDA e :
                [e EXCEPT !.chain = o.fetch,
                          !.quotes = @ + Len(o.fetch)])))

\* self.update()
update(chain, ns, n, new, self, price, response) ==
    Call__init__(chain, ns, n, new, self, self._expiration, self.strike,
                 FALSE, price, response)

\* accessors under @strike_required: three that return an attribute the
\* chain fills and one that returns an attribute of self.BandS
Accessors == {"bid", "ask", "price", "implied_volatility"}

\* what the accessor returns on self, BandS being the instance self.BandS
attribute(self, BandS, name) ==
    IF name = "bid" THEN self._bid
    ELSE IF name = "ask" THEN self._ask
    ELSE IF name = "price" THEN self._price
    ELSE BandS.impvol

\* an accessor that reads the attribute without self.update()
strike_required_unrefreshed(chain, ns, n, new, self, name, price, response) ==
    IF self.strike = None
    THEN [ret |-> None] @@
         [Outcome("AttributeError", self, <<>>, unread(ns, n))
             EXCEPT !.msg = "Use set_strike() method first"]
    ELSE [ret |-> self._price] @@ Outcome("", self, <<>>, unread(ns, n))

\* strike_required(func)(self), func the accessor called name: with a
\* strike it runs self.update() and then func, without one it raises
strike_required(chain, ns, n, new, self, name, price, response) ==
    IF self.strike = None
    THEN [ret |-> None] @@
         [Outcome("AttributeError", self, <<>>, unread(ns, n))
             EXCEPT !.msg = "Use set_strike() method first"]
    ELSE Let(update(chain, ns, n, new, self, price, response), LAMBDA e :
             [ret |-> IF e.exc = ""
                      THEN attribute(e.self, e.made[1].self, name)
                      ELSE None] @@ e)

\* ------------------------------------------- the pricing engine, alone
\* the state after m, the call BlackandScholes(S, K, T, price, r, option, q)
\* with the arguments a
Constructed(a, m) ==
    /\ heap = IF m.exc = "" THEN <<m.self>> ELSE <<>>
    /\ solved = IF m.exc = "" THEN <<m.solves>> ELSE <<>>
    /\ report = IF m.exc = "" THEN <<status(m)>>
                ELSE <<>>
    /\ call = [op |-> "__init__", id |-> 1, args |-> a, ret |-> None,
               exc |-> m.exc, bs |-> <<>>]
    /\ objs = <<>>
    /\ _rate = [cls \in Classes |-> Unset]
    /\ fetched = 0
    /\ market = Listed

InitBS ==
    \E a \in Inputs :
        Constructed(a, Solved[a])

\* a Greek of instance i
Greek(op, i, m) ==
    /\ heap' = [heap EXCEPT ![i] = m.self]
    /\ solved' = [solved EXCEPT ![i] = @ + m.solves]
    /\ call' = [op |-> op, id |-> i, args |-> <<>>, ret |-> m.ret,
                exc |-> "", bs |-> m.bs]
    /\ UNCHANGED <<report, objs, _rate, fetched, market>>

Delta == \E i \in 1..Len(heap) : Greek("delta", i, deltaAt[heap[i]])
Gamma == \E i \in 1..Len(heap) : Greek("gamma", i, gammaAt[heap[i]])
Vega == \E i \in 1..Len(heap) : Greek("vega", i, vegaAt[heap[i]])
Theta == \E i \in 1..Len(heap) : Greek("theta", i, thetaAt[heap[i]])
Rho == \E i \in 1..Len(heap) : Greek("rho", i, rhoAt[heap[i]])

\* instance i prices the option at arguments of the caller's choice
Price ==
    \E i \in 1..Len(heap), a \in Points \cup Grid :
        LET p == BSAt[heap[i].option][a]
        IN  /\ call' = [op |-> "BS", id |-> i, args |-> a,
                        ret |-> IF p = ZeroDivisionError THEN None ELSE p,
                        exc |-> IF p = ZeroDivisionError
                                THEN "ZeroDivisionError" ELSE "",
                        bs |-> <<a>>]
            /\ UNCHANGED <<heap, solved, report, objs, _rate, fetched,
                            market>>

NextBS == Delta \/ Gamma \/ Vega \/ Theta \/ Rho \/ Price

SpecBS == InitBS /\ [][NextBS]_vars

\* ------------------------------------------------ the library in use
MaxObj == 1
MaxInst == 2
MaxFetch == 4

\* the times to expiry the curve is asked for, in days: today, the
\* expiration, 30 years and 31 years
Terms == {0, Expiry, 30 * DAYS_PER_YEAR, 31 * DAYS_PER_YEAR}

\* the strikes asked for: none, the listed ones and one between them
Asked == {None, strikes[1], (strikes[1] + strikes[2]) \div 2, strikes[2]}

\* riskfree reads the treasury source only when it runs: a call made
\* through a class that finds the attribute _rate draws no response
Drawn(cls) == IF hasattr(_rate, cls) THEN {"ok"} ELSE Responses

Init ==
    /\ heap = <<>>
    /\ solved = <<>>
    /\ report = <<>>
    /\ objs = <<>>
    /\ _rate = [cls \in Classes |-> Unset]
    /\ fetched = 0
    /\ market = Listed
    /\ call = [op |-> "import", id |-> 0, cls |-> "", args |-> <<>>,
               ret |-> None, exc |-> "", bs |-> <<>>, fetch |-> <<>>,
               curve |-> Unset]

\* the state after the call op(args) on object o left e and the objects
\* after
Called(op, o, args, e, after) ==
    /\ objs' = after
    /\ heap' = heap \o [k \in 1..Len(e.made) |-> e.made[k].self]
    /\ solved' = solved \o [k \in 1..Len(e.made) |-> e.made[k].solves]
    /\ report' = report \o [k \in 1..Len(e.made) |->
                               status(e.made[k])]
    /\ _rate' = e.ns
    /\ fetched' = e.n
    /\ call' = [op |-> op, id |-> o, cls |-> e.self.cls, args |-> args,
                ret |-> IF "ret" \in DOMAIN e THEN e.ret ELSE None,
                exc |-> e.exc, bs |-> <<>>,
                fetch |-> e.fetch, curve |-> e.curve, msg |-> e.msg,
                excargs |-> e.excargs, chain |-> e.chain,
                quotes |-> e.quotes, prices |-> e.prices]
    /\ UNCHANGED market

\* Call(ticker, d, m, y, strike, strict) and Put(...)
Construct ==
    /\ Len(objs) < MaxObj
    /\ Len(heap) < MaxInst
    /\ fetched < MaxFetch
    /\ \E cls \in {"Call", "Put"}, strike \in Asked, strict \in BOOLEAN :
       \E response \in Drawn(cls) :
           Let(Call__init__(market, _rate, fetched, Len(heap) + 1,
                            object(cls), Expiry, strike, strict, Still,
                            response),
               LAMBDA e :
                   Called("__init__", Len(objs) + 1, <<strike, strict>>, e,
                          IF e.exc = "" THEN Append(objs, e.self) ELSE objs))

SetStrike ==
    /\ Len(heap) < MaxInst
    /\ fetched < MaxFetch
    /\ \E o \in 1..Len(objs), val \in Asked \ {None} :
       \E response \in Drawn(objs[o].cls) :
           Let(set_strike(_rate, fetched, Len(heap) + 1, objs[o], val,
                          Still, response),
               LAMBDA e :
                   Called("set_strike", o, <<val>>, e,
                          [objs EXCEPT ![o] = e.self]))

Update ==
    /\ Len(heap) < MaxInst
    /\ fetched < MaxFetch
    /\ \E o \in 1..Len(objs) :
       \E response \in Drawn(objs[o].cls) :
           Let(update(market, _rate, fetched, Len(heap) + 1, objs[o],
                      Still, response),
               LAMBDA e :
                   Called("update", o, <<>>, e, [objs EXCEPT ![o] = e.self]))

\* o.bid, o.ask, o.price, o.implied_volatility()
Read ==
    /\ Len(heap) < MaxInst
    /\ fetched < MaxFetch
    /\ \E o \in 1..Len(objs), name \in Accessors :
       \E response \in Drawn(objs[o].cls) :
           Let(strike_required(market, _rate, fetched, Len(heap) + 1,
                               objs[o], name, Still, response),
               LAMBDA e :
                   Called(name, o, <<>>, e, [objs EXCEPT ![o] = e.self]))

\* cls.rate(T), T = days / 365
Rate ==
    /\ fetched < MaxFetch
    /\ \E cls \in Classes, days \in Terms :
       \E response \in Drawn(cls) :
           Let(rate(_rate, fetched, cls, response), LAMBDA c :
           Let(IF c.exc # "" THEN [exc |-> c.exc, ret |-> None]
               ELSE curve(c.ret.f, days),
               LAMBDA r :
                   /\ _rate' = c.ns
                   /\ fetched' = c.n
                   /\ call' = [op |-> "rate", id |-> 0, cls |-> cls,
                               args |-> <<days>>, ret |-> r.ret,
                               exc |-> r.exc, bs |-> <<>>,
                               fetch |-> c.fetch, curve |-> c.ret]
                   /\ UNCHANGED <<heap, solved, report, objs, market>>))

Next ==
    \/ Construct
    \/ SetStrike
    \/ Update
    \/ Read
    \/ Rate
    \/ Delta
    \/ Gamma
    \/ Vega
    \/ Theta
    \/ Rho

Spec == Init /\ [][Next]_vars

\* ------------------------------------------- the expirations in use
\* Options without a strike on a chain that changes: expirations are
\* listed and delisted, calls and puts appear and disappear.
InitDates ==
    /\ heap = <<>>
    /\ solved = <<>>
    /\ report = <<>>
    /\ objs = <<>>
    /\ _rate = [cls \in Classes |-> Unset]
    /\ fetched = 0
    /\ market \in Markets
    /\ call = [op |-> "import", id |-> 0, cls |-> "", args |-> <<>>,
               ret |-> None, exc |-> "", bs |-> <<>>, fetch |-> <<>>,
               curve |-> Unset]

\* Call(ticker, d, m, y, strict=strict) and Put(...), no strike given
ConstructAt ==
    /\ Len(objs) < MaxObj
    /\ \E cls \in {"Call", "Put"}, date \in Wanted, strict \in BOOLEAN :
           Let(Call__init__(market, _rate, fetched, Len(heap) + 1,
                            object(cls), date, None, strict, Still, "ok"),
               LAMBDA e :
                   Called("__init__", Len(objs) + 1, <<date, strict>>, e,
                          IF e.exc = "" THEN Append(objs, e.self) ELSE objs))

\* what the chain says of one date changes
Change ==
    /\ \E m \in Markets :
           /\ Cardinality({ d \in Days :
                              \/ (d \in m.exp) # (d \in market.exp)
                              \/ (d \in m.calls) # (d \in market.calls)
                              \/ (d \in m.puts) # (d \in market.puts) }) = 1
           /\ market' = m
    /\ call' = [op |-> "market", id |-> 0, cls |-> "", args |-> <<>>,
                ret |-> None, exc |-> "", bs |-> <<>>, fetch |-> <<>>,
                curve |-> Unset]
    /\ UNCHANGED <<heap, solved, report, objs, _rate, fetched>>

NextDates ==
    \/ ConstructAt
    \/ Update
    \/ Change

SpecDates == InitDates /\ [][NextDates]_vars

\* ------------------------------------------------ the quote in motion
\* Options with a strike on an underlying whose quote moves: each read of
\* self.underlying.price fetches the quote anew and returns what the
\* quote is then.
ConstructMoving ==
    /\ Len(objs) < MaxObj
    /\ Len(heap) < MaxInst
    /\ fetched < MaxFetch
    /\ \E cls \in {"Call", "Put"}, strike \in Asked, strict \in BOOLEAN,
          price \in Spots \X Spots :
       \E response \in Drawn(cls) :
           Let(Call__init__(market, _rate, fetched, Len(heap) + 1,
                            object(cls), Expiry, strike, strict, price,
                            response),
               LAMBDA e :
                   Called("__init__", Len(objs) + 1, <<strike, strict>>, e,
                          IF e.exc = "" THEN Append(objs, e.self) ELSE objs))

SetStrikeMoving ==
    /\ Len(heap) < MaxInst
    /\ fetched < MaxFetch
    /\ \E o \in 1..Len(objs), val \in Asked \ {None},
          price \in Spots \X Spots :
       \E response \in Drawn(objs[o].cls) :
           Let(set_strike(_rate, fetched, Len(heap) + 1, objs[o], val,
                          price, response),
               LAMBDA e :
                   Called("set_strike", o, <<val>>, e,
                          [objs EXCEPT ![o] = e.self]))

NextQuotes ==
    \/ ConstructMoving
    \/ SetStrikeMoving

SpecQuotes == Init /\ [][NextQuotes]_vars

\* ------------------------------------------------------------- properties
\* the volatilities a Greek may price at, given the stored impvol
GreekSigmas(op, iv) ==
    IF op = "vega"
    THEN {Add(iv, VEGA_DIFFERENTIAL), Sub(iv, VEGA_DIFFERENTIAL)}
    ELSE {iv}

\* C1: every instance's implied-volatility solve has run exactly once, at
\* construction, however many Greeks were called since, and every price
\* evaluation of a Greek is made at the stored impvol (vega: impvol plus or
\* minus its step).
SolvedOnce ==
    /\ \A i \in 1..Len(heap) : solved[i] = 1
    /\ call.op \in Greeks =>
          /\ call.bs # <<>>
          /\ \A k \in 1..Len(call.bs) :
                call.bs[k][4] \in GreekSigmas(call.op, heap[call.id].impvol)

\* a vega has been computed on an instance whose solve ran once and moved
\* away from the starting value
SolvedOnceSeen ==
    /\ call.op = "vega"
    /\ solved[call.id] = 1
    /\ heap[call.id].impvol # SOLVER_STARTING_VALUE
    /\ call.bs[1][4] = Add(heap[call.id].impvol, VEGA_DIFFERENTIAL)

\* C2: an instance constructed from the price of a valid input at a
\* volatility sigma0 > 0 has an impvol within 1e-6 of sigma0.
RoundTrip ==
    (call.op = "__init__" /\ call.args.sigma0 # None) =>
        /\ call.exc = ""
        /\ Abs(heap[1].impvol - call.args.sigma0)
              <= IMPLIED_VOLATILITY_TOLERANCE

\* the formulas of the claim, at arguments with T > 0 and sigma > 0
D1(S, K, T, sigma, r, q) ==
    Div(Add(Ln(Div(S, K)),
            Mul(Add(Sub(r, q), Div(Mul(sigma, sigma), 2 * ONE)), T)),
        Mul(sigma, Sqrt(T)))
D2(S, K, T, sigma, r, q) == Sub(D1(S, K, T, sigma, r, q), Mul(sigma, Sqrt(T)))
CallFormula(S, K, T, sigma, r, q) ==
    Sub(Mul(Mul(S, Exp(Neg(Mul(q, T)))), Cdf(D1(S, K, T, sigma, r, q))),
        Mul(Mul(K, Exp(Neg(Mul(r, T)))), Cdf(D2(S, K, T, sigma, r, q))))
PutFormula(S, K, T, sigma, r, q) ==
    Sub(Mul(Mul(K, Exp(Neg(Mul(r, T)))),
            Cdf(Neg(D2(S, K, T, sigma, r, q)))),
        Mul(Mul(S, Exp(Neg(Mul(q, T)))),
            Cdf(Neg(D1(S, K, T, sigma, r, q)))))
Formula(option, a) ==
    IF option = "Call" THEN CallFormula(a[1], a[2], a[3], a[4], a[5], a[6])
    ELSE PutFormula(a[1], a[2], a[3], a[4], a[5], a[6])

\* C3: what BS returns on an instance is the Call formula when the
\* instance's option kind is Call and the Put formula when it is Put,
\* at the arguments of the call, whatever else the instance holds.
PricedByKind ==
    (call.op = "BS" /\ call.args[3] > 0 /\ call.args[4] > 0) =>
        /\ call.exc = ""
        /\ call.ret = Formula(heap[call.id].option, call.args)

\* a Put instance has priced a strike below the spot, as a put
PricedByKindSeen ==
    /\ call.op = "BS"
    /\ call.args[3] > 0 /\ call.args[4] > 0
    /\ call.args[2] < call.args[1]
    /\ heap[call.id].option = "Put"
    /\ call.ret = PutFormula(call.args[1], call.args[2], call.args[3],
                             call.args[4], call.args[5], call.args[6])
    /\ call.ret > 0

\* C4: a construction with T <= 0 or K <= 0 raises, and leaves no instance.
RejectedBeforeSolve ==
    (call.op = "__init__" /\ (call.args.T <= 0 \/ call.args.K <= 0)) =>
        /\ call.exc # ""
        /\ heap = <<>>

\* C5: BS at T <= 0 or sigma <= 0 raises or returns nan, never a finite
\* number.
FailsOutsideDomain ==
    (call.op = "BS" /\ (call.args[3] <= 0 \/ call.args[4] <= 0)) =>
        call.exc # "" \/ IsNaN(call.ret)

\* the attributes of a BlackandScholes instance
Attributes == {"S", "K", "T", "r", "q", "option", "opt_price", "impvol"}

\* C6: a solve that fsolve reports as not converged raises nothing and
\* leaves an instance with a finite impvol and no attribute beyond the
\* inputs and impvol; the one exception a construction raises is the
\* division by a zero strike.
Unsignalled ==
    /\ \A i \in 1..Len(heap) :
          report[i].ier # 1 =>
              /\ IsFin(heap[i].impvol)
              /\ DOMAIN heap[i] = Attributes
    /\ (call.op = "__init__" /\ call.exc # "") => call.args.K = 0

\* a Greek has been computed on an instance whose solve made no progress
\* from the starting value and stopped on slow progress
UnsignalledSeen ==
    /\ call.op \in Greeks
    /\ report[call.id].ier = 5
    /\ heap[call.id].impvol = SOLVER_STARTING_VALUE
    /\ heap[call.id].K = 50 * PRICE
    /\ IsFin(call.ret)

\* the calls of the library that can read the class property rate
Reading == {"__init__", "set_strike", "update", "rate"}

\* C7: riskfree is called at most once in a process, whatever the order in
\* which the classes are used, and a read of rate through Option, Call or
\* Put returns the same cached function
FetchedOnce ==
    /\ fetched <= 1
    /\ \A c, d \in Classes :
           (hasattr(_rate, c) /\ hasattr(_rate, d)) =>
               getattr(_rate, c) = getattr(_rate, d)

\* C8: riskfree raises nothing and returns a function; when the request
\* fails, the response does not parse, no daily entry is present or a
\* maturity field is missing or non-numeric, the function returned maps
\* every time to expiry to FALLBACK_RISK_FREE_RATE
FallsBack ==
    (call.op \in Reading /\ call.fetch # <<>>) =>
        /\ call.exc \notin Failures \ {"ValueError"}
        /\ call.curve.id = fetched
        /\ call.fetch[1] \in Failures =>
               /\ call.exc = ""
               /\ \A days \in Terms :
                      curve(call.curve.f, days)
                          = [exc |-> "", ret |-> FALLBACK_RISK_FREE_RATE]

\* a Put is constructed at a listed strike while a maturity field is
\* missing, and is valued at the fallback rate
FallsBackSeen ==
    /\ call.op = "__init__"
    /\ call.cls = "Put"
    /\ call.fetch = <<"AttributeError">>
    /\ call.exc = ""
    /\ Len(heap) = 1
    /\ heap[1].r = FALLBACK_RISK_FREE_RATE
    /\ objs[1].BandS = 1

\* C9: the function built from fetched yields returns a rate for every
\* T >= 0, beyond the last node of 30 years too, and does not raise
Interpolated ==
    (call.op = "rate" /\ call.curve.f.kind = "interp1d"
                      /\ call.args[1] >= 0) =>
        /\ call.exc = ""
        /\ call.ret # None

\* C10: no call changes a BlackandScholes instance that exists: the Greeks
\* leave the heap as it is, and a call that changes the BandS of an option
\* binds it to an instance constructed in that call
Immutable ==
    [][/\ Len(heap') >= Len(heap)
       /\ \A i \in 1..Len(heap) : heap'[i] = heap[i]
       /\ call'.op \in Greeks => heap' = heap
       /\ \A o \in 1..Len(objs') :
              (o > Len(objs) \/ objs'[o].BandS # objs[o].BandS) =>
                  \/ o > Len(objs) /\ objs'[o].BandS = 0
                  \/ /\ Len(heap') = Len(heap) + 1
                     /\ objs'[o].BandS = Len(heap')]_vars

\* an option valued once is refreshed: it holds the second instance, and
\* the first is still there
ImmutableSeen ==
    /\ call.op \in {"set_strike", "update"}
    /\ call.exc = ""
    /\ Len(heap) = 2
    /\ objs[1].BandS = 2
    /\ heap[1].K # heap[2].K

\* the price of the instance's option with its stored inputs and impvol
\* moved by dS (spot), dT (time), dsigma (volatility) and dr (rate)
Moved(self, dS, dT, dsigma, dr) ==
    BS(self, Add(self.S, dS), self.K, Add(self.T, dT),
       Add(self.impvol, dsigma), Add(self.r, dr), self.q)

\* the Greeks as central differences with the steps 1e-3 (spot), 1e-4
\* (volatility, rate) and 1e-5 (time)
CentralDifference(op, self) ==
    LET hS == PRICE \div (10 * 10 * 10)
        hsigma == ONE \div (100 * 100)
        hT == ONE \div (100 * 100 * 10)
    IN  CASE op = "delta" ->
               Div(Sub(Moved(self, hS, 0, 0, 0), Moved(self, 0 - hS, 0, 0, 0)),
                   2 * hS)
          [] op = "gamma" ->
               Div(Add(Sub(Moved(self, hS, 0, 0, 0),
                           Times(2, Moved(self, 0, 0, 0, 0))),
                       Moved(self, 0 - hS, 0, 0, 0)),
                   (hS * hS) \div PRICE)
          [] op = "vega" ->
               Div(Sub(Moved(self, 0, 0, hsigma, 0),
                       Moved(self, 0, 0, 0 - hsigma, 0)),
                   2 * hsigma * 100)
          [] op = "theta" ->
               Div(Sub(Moved(self, 0, hT, 0, 0), Moved(self, 0, 0 - hT, 0, 0)),
                   2 * hT * 365)
          [] op = "rho" ->
               Div(Sub(Moved(self, 0, 0, 0, hsigma),
                       Moved(self, 0, 0, 0, 0 - hsigma)),
                   2 * hsigma * 100)

\* the slot of BS's arguments (S, K, T, sigma, r, q) a Greek perturbs
Perturbed(op) ==
    CASE op \in {"delta", "gamma"} -> 1
      [] op = "theta" -> 3
      [] op = "vega" -> 4
      [] op = "rho" -> 5

Forward(a) ==
    Sub(Mul(a[1], Exp(Neg(Mul(a[6], a[3])))),
        Mul(a[2], Exp(Neg(Mul(a[5], a[3])))))

\* the price the other formula gives at the arguments of the last BS call
Counterpart ==
    IF heap[call.id].option = "Call"
    THEN _BlackScholesPut(call.args[1], call.args[2], call.args[3],
                          call.args[4], call.args[5], call.args[6])
    ELSE _BlackScholesCall(call.args[1], call.args[2], call.args[3],
                           call.args[4], call.args[5], call.args[6])

\* C12: for T > 0 and sigma > 0, the call price minus the put price at the
\* same arguments is S * exp(-q T) - K * exp(-r T), to the last digit of
\* a price (1e-6)
Parity ==
    (call.op = "BS" /\ call.args[3] > 0 /\ call.args[4] > 0) =>
        LET c == IF heap[call.id].option = "Call" THEN call.ret
                 ELSE Counterpart
            p == IF heap[call.id].option = "Put" THEN call.ret
                 ELSE Counterpart
        IN  /\ IsFin(c)
            /\ IsFin(p)
            /\ Abs(Sub(Sub(c, p), Forward(call.args))) <= 1

\* a put was priced two weeks from expiry at a volatility of 50%, strike
\* above the spot
ParitySeen ==
    /\ call.op = "BS"
    /\ heap[call.id].option = "Put"
    /\ call.args[2] > call.args[1]
    /\ call.args[3] = 4 * PCT
    /\ call.args[4] = 50 * PCT
    /\ call.ret > 10 * PRICE

\* C13: with S, K, T > 0, r and q fixed, the price BS returns does not
\* fall as sigma rises over the grid in (0.01, 3.0), for calls and for puts
Monotone ==
    (call.op = "BS" /\ call.args[3] > 0 /\ call.args[4] > 0) =>
        \A sigma \in Sigmas :
            sigma * PCT > call.args[4] =>
                Le(call.ret,
                   BS(heap[call.id], call.args[1], call.args[2],
                      call.args[3], sigma * PCT, call.args[5], call.args[6]))

\* a put was priced at the lowest volatility of the grid, where it is
\* worth its discounted intrinsic value
MonotoneSeen ==
    /\ call.op = "BS"
    /\ heap[call.id].option = "Put"
    /\ call.args[3] = 50 * PCT
    /\ call.args[4] = 2 * PCT
    /\ call.ret > 8 * PRICE

\* the instance BlackandScholes(S=100, K=100, T=0.5, price=6.80, r=0.05,
\* option='Call', q=0)
IsScenario(self) ==
    /\ self.S = 100 * PRICE
    /\ self.K = 100 * PRICE
    /\ self.T = 50 * PCT
    /\ self.opt_price = 6 * PRICE + 80 * (PRICE \div 100)
    /\ self.r = 5 * PCT
    /\ self.option = "Call"
    /\ self.q = 0

\* impvol within 1e-4 of iv and, when delta has been called, its value
\* within 0.01 of d (iv in 1e-4, d in 1e-2)
ScenarioWithin(iv, d) ==
    \A i \in 1..Len(heap) :
        IsScenario(heap[i]) =>
            /\ Abs(Sub(heap[i].impvol, iv * (ONE \div (100 * 100))))
                   <= ONE \div (100 * 100)
            /\ (call.op = "delta" /\ call.id = i) =>
                   Abs(Sub(call.ret, d * PCT)) <= PCT

\* C14: in the scenario, impvol is within 1e-4 of 0.20 and delta() within
\* 0.01 of 0.57
ScenarioAsStated == ScenarioWithin(2000, 57)

\* C14, amended: in the scenario, impvol is within 1e-4 of 0.1968 and
\* delta() within 0.01 of 0.60
ScenarioAmended == ScenarioWithin(1968, 60)

\* delta was called on the scenario's instance
ScenarioSeen ==
    /\ call.op = "delta"
    /\ IsScenario(heap[call.id])
    /\ report[call.id].ier = 1
    /\ IsFin(call.ret)

\* the tolerance of the solve, at the scale of the prices
RESIDUAL_TOLERANCE == IMPLIED_VOLATILITY_TOLERANCE \div (ONE \div PRICE)

\* hybrj ended with its step bound at most xtol times the length of the
\* iterate, or with a residual of exactly zero
EndedOnStep(s) ==
    Le(s.delta, Mul(IMPLIED_VOLATILITY_TOLERANCE, s.xnorm)) \/ s.fnorm = 0

\* C15 (as stated): every solve starts from SOLVER_STARTING_VALUE, and a
\* solve that fsolve reports as converged (ier = 1) ended with a residual
\* |BS(sigma) - premium| below the tolerance 1e-6
ConvergedOnResidual ==
    \A i \in 1..Len(heap) :
        /\ report[i].x0 = SOLVER_STARTING_VALUE
        /\ report[i].ier = 1 => Lt(report[i].fnorm, RESIDUAL_TOLERANCE)

\* C15 (amended): every solve starts from SOLVER_STARTING_VALUE, and
\* fsolve reports a solve as converged (ier = 1) exactly when hybrj ended
\* with its step bound, the change it allows between successive iterates,
\* at most 1e-6 times the length of the iterate, or with a residual of
\* exactly zero; the tolerance does not bound the residual
ConvergedOnStep ==
    \A i \in 1..Len(heap) :
        /\ report[i].x0 = SOLVER_STARTING_VALUE
        /\ report[i].ier = 1 <=> EndedOnStep(report[i])

\* the solve of the premium next to the price at the starting value is
\* reported as converged after one step, with a residual of more than
\* ten times the tolerance
ConvergedOnStepSeen ==
    \E i \in 1..Len(heap) :
        /\ heap[i].S = 10 * Spot
        /\ report[i].ier = 1
        /\ report[i].nfev = 2
        /\ Gt(report[i].fnorm, 10 * RESIDUAL_TOLERANCE)
        /\ Le(report[i].delta,
              Mul(IMPLIED_VOLATILITY_TOLERANCE, report[i].xnorm))

\* the expirations the chain has contracts of a class for
Data(chain, cls) == IF cls = "Call" THEN chain.calls ELSE chain.puts

\* the last call initialised an option without strict: a construction
\* with strict = False, or an update
NonStrict ==
    \/ call.op = "update"
    \/ call.op = "__init__" /\ ~call.args[2]

\* C16: with strict = False, an initialisation (at construction or through
\* update) for a date that has no data for the option type raises no
\* ValueError and leaves the option on a listed expiration that has data,
\* provided some listed expiration has data for the type
FallsBackToListed ==
    (/\ NonStrict
     /\ call.chain[1] \notin Data(market, call.cls)
     /\ Data(market, call.cls) # {})
    => /\ call.exc # "ValueError"
       /\ objs[call.id]._expiration \in Data(market, call.cls)

\* C17: constructing with strict = True for a date that has no data for
\* the option type raises ValueError with the listed expirations, after
\* one fetch of the chain, and binds no object; a strict construction that
\* succeeds is on the date asked for
StrictRaises ==
    (call.op = "__init__" /\ call.args[2]) =>
        IF call.args[1] \in Data(market, call.cls)
        THEN /\ call.exc = ""
             /\ objs[call.id]._expiration = call.args[1]
             /\ call.chain = <<call.args[1]>>
        ELSE /\ call.exc = "ValueError"
             /\ call.msg = "Possible expiration dates for this option are:"
             /\ call.excargs = market.exp
             /\ call.chain = <<call.args[1]>>
             /\ Len(objs) < call.id

\* a strict construction raised on a chain that lists an expiration with
\* data for the type, other than the date asked for
StrictRaisesSeen ==
    /\ call.op = "__init__" /\ call.args[2]
    /\ call.exc = "ValueError"
    /\ Data(market, call.cls) # {}
    /\ call.args[1] \in market.exp

\* the listed strikes, as a set
Listing == { strikes[k] : k \in 1..Len(strikes) }

UnlistedLeavesAll ==
    [][(call'.op = "set_strike" /\ call'.args[1] \notin Listing) =>
           /\ call'.exc = "LookupError"
           /\ call'.quotes = 0
           /\ call'.fetch = <<>>
           /\ UNCHANGED <<objs, heap, solved, report, _rate, fetched>>]_vars

\* set_strike raised on an option that had a strike, a price and a
\* valuation
UnlistedLeavesAllSeen ==
    /\ call.op = "set_strike"
    /\ call.exc = "LookupError"
    /\ objs[call.id].strike = strikes[2]
    /\ objs[call.id]._bid = bid(objs[call.id].cls, strikes[2])
    /\ objs[call.id].itm
    /\ objs[call.id].BandS = 1
    /\ solved = <<1>>

\* C20: reading bid, ask or price on an option with no strike set raises
\* LookupError
UnsetRaisesLookupError ==
    (call.op \in Accessors /\ objs[call.id].strike = None) =>
        call.exc = "LookupError"

\* the volatilities the derivative is compared at
FprimeSigmas == {SOLVER_STARTING_VALUE, 50 * PCT}

\* S * sqrt(T) * pdf(d1) * exp(-rT) at the d1 of the pricing formulas
Vegalike(self, sigma) ==
    Mul(Mul(Mul(self.S, Sqrt(self.T)),
            Pdf(D1(self.S, self.K, self.T, sigma, self.r, self.q))),
        Exp(Neg(Mul(self.r, self.T))))

\* C21: the derivative handed to the solver at sigma is
\* S * sqrt(T) * pdf(d1) * exp(-rT) with the d1 of _BlackScholesCall and
\* _BlackScholesPut, which includes the dividend yield q, whether q is
\* zero or not and for calls and puts alike
FprimeSharesD1 ==
    \A i \in 1..Len(heap) :
        (heap[i].T > 0 /\ heap[i].K > 0) =>
            \A sigma \in FprimeSigmas :
                _fprime(heap[i], sigma) = Vegalike(heap[i], sigma)

EndsOnNearest ==
    (NonStrict /\ call.exc = "" /\ Len(call.chain) > 1) =>
        \A x \in Data(market, call.cls) :
            Abs(objs[call.id]._expiration - call.chain[1])
                <= Abs(x - call.chain[1])

\* C24: a valuation is built from one snapshot of the market: the spot
\* that decided the flag itm of an option is the spot its BlackandScholes
\* was given as S, also when the quote moves between the fetches of
\* set_strike
OneSnapshot ==
    \A o \in 1..Len(objs) :
        objs[o].BandS # 0 =>
            objs[o].itm = IF objs[o].cls = "Call"
                          THEN heap[objs[o].BandS].S > objs[o].strike
                          ELSE heap[objs[o].BandS].S < objs[o].strike

====
